---- MODULE Spec2Model ----
(***************************************************************************)
(* QDjangoWhere (src/src/db/QDjangoWhere.cpp): the predicate algebra used  *)
(* to build parameterised SQL WHERE clauses.                               *)
(*                                                                         *)
(* A QDjangoWhere is a handle `d` on a shared QDjangoWherePrivate node.    *)
(* The model keeps every node ever allocated in `heap`; a handle is the    *)
(* index of its node.  operator!, operator&& and operator|| are actions    *)
(* on the heap, sql() and bindValues() are operators over it.  SQL text    *)
(* is a sequence of tokens, a string value is a sequence of characters.    *)
(***************************************************************************)
EXTENDS Integers, Sequences, FiniteSets, TLC

VARIABLES heap, negOf, last

vars == <<heap, negOf, last>>

\* ------------------------------------------------------------------ bounds
MaxNodes == 4

MaxLeaves == 2

MaxGrown == 3

\* ---------------------------------------------------------------- QVariant
Invalid == [t |-> "invalid", b |-> FALSE, s |-> <<>>, l |-> <<>>]

VBool(x) == [t |-> "bool", b |-> x, s |-> <<>>, l |-> <<>>]

VString(x) == [t |-> "string", b |-> FALSE, s |-> x, l |-> <<>>]

VList(x) == [t |-> "list", b |-> FALSE, s |-> <<>>, l |-> x]

toBool(v) ==
    CASE v.t = "bool" -> v.b
      [] v.t = "string" -> v.s \notin {<<>>, <<"0">>, <<"f", "a", "l", "s", "e">>}
      [] OTHER -> FALSE

toString(v) ==
    CASE v.t = "string" -> v.s
      [] v.t = "bool" -> IF v.b THEN <<"t", "r", "u", "e">> ELSE <<"f", "a", "l", "s", "e">>
      [] OTHER -> <<>>

toList(v) == IF v.t = "list" THEN [i \in 1..Len(v.l) |-> VString(v.l[i])] ELSE <<>>

\* --------------------------------------------------------------- escapeLike
RECURSIVE replace(_, _, _)
replace(data, before, after) ==
    IF data = <<>> THEN <<>>
    ELSE (IF Head(data) = before THEN after ELSE <<Head(data)>>)
             \o replace(Tail(data), before, after)

escapeLike(data) == replace(replace(data, "%", <<"\\", "%">>), "_", <<"\\", "_">>)

\* ------------------------------------------------------ QDjangoWherePrivate
Operations ==
    {"None", "Equals", "IEquals", "NotEquals", "INotEquals", "GreaterThan",
     "LessThan", "GreaterOrEquals", "LessOrEquals", "StartsWith", "IStartsWith",
     "EndsWith", "IEndsWith", "Contains", "IContains", "IsIn", "IsNull"}

QDjangoWherePrivate ==
    [operation |-> "None", key |-> "", data |-> Invalid,
     combine |-> "NoCombine", negate |-> FALSE, children |-> <<>>]

QDjangoWhere(key, operation, value) ==
    [QDjangoWherePrivate EXCEPT !.key = key, !.operation = operation, !.data = value]

\* The dialects QDjangoDatabase::databaseType(db) can report to sql().
DatabaseTypes == {"SQLite", "MySqlServer", "PostgreSQL", "UnknownDB"}

\* ------------------------------------------------------------ shared handles
\* QSharedDataPointer: a write through a handle whose node is also held by
\* another handle first gives the writer a private copy of the node.
Detach(hp, h) == [heap |-> Append(hp, hp[h]), d |-> Len(hp) + 1]

\* ------------------------------------------------------- isAll() / isNone()
isAll(n) == n.combine = "NoCombine" /\ n.operation = "None" /\ n.negate = FALSE

isNone(n) == n.combine = "NoCombine" /\ n.operation = "None" /\ n.negate = TRUE

\* ---------------------------------------------------------------- operator!
\* operator! with !(a > b) simplified to a < b.
negatedStrictInverse(d) ==
    IF d.children = <<>> THEN
        CASE d.operation \in {"None", "IsIn", "StartsWith", "IStartsWith", "EndsWith",
                              "IEndsWith", "Contains", "IContains"}
                 -> [d EXCEPT !.negate = ~d.negate]
          [] d.operation = "IsNull" -> [d EXCEPT !.data = VBool(~toBool(d.data))]
          [] d.operation = "Equals" -> [d EXCEPT !.operation = "NotEquals"]
          [] d.operation = "IEquals" -> [d EXCEPT !.operation = "INotEquals"]
          [] d.operation = "NotEquals" -> [d EXCEPT !.operation = "Equals"]
          [] d.operation = "INotEquals" -> [d EXCEPT !.operation = "IEquals"]
          [] d.operation = "GreaterThan" -> [d EXCEPT !.operation = "LessThan"]
          [] d.operation = "LessThan" -> [d EXCEPT !.operation = "GreaterOrEquals"]
          [] d.operation = "GreaterOrEquals" -> [d EXCEPT !.operation = "LessThan"]
          [] d.operation = "LessOrEquals" -> [d EXCEPT !.operation = "GreaterThan"]
          [] OTHER -> d
    ELSE [d EXCEPT !.negate = ~d.negate]

\* The private data that operator! leaves in the result's node.
negated(d) ==
    IF d.children = <<>> THEN
        CASE d.operation \in {"None", "IsIn", "StartsWith", "IStartsWith", "EndsWith",
                              "IEndsWith", "Contains", "IContains"}
                 -> [d EXCEPT !.negate = ~d.negate]
          [] d.operation = "IsNull" -> [d EXCEPT !.data = VBool(~toBool(d.data))]
          [] d.operation = "Equals" -> [d EXCEPT !.operation = "NotEquals"]
          [] d.operation = "IEquals" -> [d EXCEPT !.operation = "INotEquals"]
          [] d.operation = "NotEquals" -> [d EXCEPT !.operation = "Equals"]
          [] d.operation = "INotEquals" -> [d EXCEPT !.operation = "IEquals"]
          [] d.operation = "GreaterThan" -> [d EXCEPT !.operation = "LessOrEquals"]
          [] d.operation = "LessThan" -> [d EXCEPT !.operation = "GreaterOrEquals"]
          [] d.operation = "GreaterOrEquals" -> [d EXCEPT !.operation = "LessThan"]
          [] d.operation = "LessOrEquals" -> [d EXCEPT !.operation = "GreaterThan"]
          [] OTHER -> d
    ELSE [d EXCEPT !.negate = ~d.negate]

\* result.d = d shares this's node; the first write through result.d detaches.
operatorNot(hp, this) ==
    LET result == Detach(hp, this)
    IN  [heap |-> [result.heap EXCEPT ![result.d] = negated(hp[this])], d |-> result.d]

\* operator&& with its two absorption tests in the other order.
operatorAndSwapped(hp, this, other) ==
    IF isNone(hp[this]) \/ isAll(hp[other]) THEN [heap |-> hp, d |-> this]
    ELSE IF isAll(hp[this]) \/ isNone(hp[other]) THEN [heap |-> hp, d |-> other]
    ELSE IF hp[this].combine = "AndCombine" THEN
        LET result == Detach(hp, this)
        IN  [heap |-> [result.heap EXCEPT ![result.d].children = Append(@, other)],
             d |-> result.d]
    ELSE [heap |-> Append(hp, [QDjangoWherePrivate EXCEPT
                                   !.combine = "AndCombine",
                                   !.children = <<this, other>>]),
          d |-> Len(hp) + 1]

\* operator&& that always builds a new two-operand node.
operatorAndNested(hp, this, other) ==
    IF isAll(hp[this]) \/ isNone(hp[other]) THEN [heap |-> hp, d |-> other]
    ELSE IF isNone(hp[this]) \/ isAll(hp[other]) THEN [heap |-> hp, d |-> this]
    ELSE [heap |-> Append(hp, [QDjangoWherePrivate EXCEPT
                                   !.combine = "AndCombine",
                                   !.children = <<this, other>>]),
          d |-> Len(hp) + 1]

\* operator&& that appends to this's own node instead of to a copy of it.
operatorAndInPlace(hp, this, other) ==
    IF isAll(hp[this]) \/ isNone(hp[other]) THEN [heap |-> hp, d |-> other]
    ELSE IF isNone(hp[this]) \/ isAll(hp[other]) THEN [heap |-> hp, d |-> this]
    ELSE IF hp[this].combine = "AndCombine" THEN
        [heap |-> [hp EXCEPT ![this].children = Append(@, other)], d |-> this]
    ELSE [heap |-> Append(hp, [QDjangoWherePrivate EXCEPT
                                   !.combine = "AndCombine",
                                   !.children = <<this, other>>]),
          d |-> Len(hp) + 1]

\* operator&& that does not test whether other is All.
operatorAndKeepsAll(hp, this, other) ==
    IF isAll(hp[this]) \/ isNone(hp[other]) THEN [heap |-> hp, d |-> other]
    ELSE IF isNone(hp[this]) THEN [heap |-> hp, d |-> this]
    ELSE IF hp[this].combine = "AndCombine" THEN
        LET result == Detach(hp, this)
        IN  [heap |-> [result.heap EXCEPT ![result.d].children = Append(@, other)],
             d |-> result.d]
    ELSE [heap |-> Append(hp, [QDjangoWherePrivate EXCEPT
                                   !.combine = "AndCombine",
                                   !.children = <<this, other>>]),
          d |-> Len(hp) + 1]

\* --------------------------------------------------------------- operator&&
operatorAnd(hp, this, other) ==
    IF isAll(hp[this]) \/ isNone(hp[other]) THEN [heap |-> hp, d |-> other]
    ELSE IF isNone(hp[this]) \/ isAll(hp[other]) THEN [heap |-> hp, d |-> this]
    ELSE IF hp[this].combine = "AndCombine" THEN
        LET result == Detach(hp, this)
        IN  [heap |-> [result.heap EXCEPT ![result.d].children = Append(@, other)],
             d |-> result.d]
    ELSE [heap |-> Append(hp, [QDjangoWherePrivate EXCEPT
                                   !.combine = "AndCombine",
                                   !.children = <<this, other>>]),
          d |-> Len(hp) + 1]

\* --------------------------------------------------------------- operator||
operatorOr(hp, this, other) ==
    IF isAll(hp[this]) \/ isNone(hp[other]) THEN [heap |-> hp, d |-> this]
    ELSE IF isNone(hp[this]) \/ isAll(hp[other]) THEN [heap |-> hp, d |-> other]
    ELSE IF hp[this].combine = "OrCombine" THEN
        LET result == Detach(hp, this)
        IN  [heap |-> [result.heap EXCEPT ![result.d].children = Append(@, other)],
             d |-> result.d]
    ELSE [heap |-> Append(hp, [QDjangoWherePrivate EXCEPT
                                   !.combine = "OrCombine",
                                   !.children = <<this, other>>]),
          d |-> Len(hp) + 1]

\* --------------------------------------------------------------- bindValues
\* bindValues() without its IsNull branch.
comparisonValuesBindsNull(d) ==
    IF d.operation = "IsIn" THEN toList(d.data)
    ELSE IF d.operation \in {"StartsWith", "IStartsWith"}
        THEN <<VString(escapeLike(toString(d.data)) \o <<"%">>)>>
    ELSE IF d.operation \in {"EndsWith", "IEndsWith"}
        THEN <<VString(<<"%">> \o escapeLike(toString(d.data)))>>
    ELSE IF d.operation \in {"Contains", "IContains"}
        THEN <<VString(<<"%">> \o escapeLike(toString(d.data)) \o <<"%">>)>>
    ELSE <<d.data>>

\* The values bound for a comparison (operation other than None).
comparisonValues(d) ==
    IF d.operation = "IsIn" THEN toList(d.data)
    ELSE IF d.operation = "IsNull" THEN <<>>
    ELSE IF d.operation \in {"StartsWith", "IStartsWith"}
        THEN <<VString(escapeLike(toString(d.data)) \o <<"%">>)>>
    ELSE IF d.operation \in {"EndsWith", "IEndsWith"}
        THEN <<VString(<<"%">> \o escapeLike(toString(d.data)))>>
    ELSE IF d.operation \in {"Contains", "IContains"}
        THEN <<VString(<<"%">> \o escapeLike(toString(d.data)) \o <<"%">>)>>
    ELSE <<d.data>>

RECURSIVE bindValues(_, _)
bindValues(hp, this) ==
    LET d == hp[this]
    IN  IF d.operation # "None" THEN comparisonValues(d)
        ELSE LET RECURSIVE each(_)
                 each(i) == IF i > Len(d.children) THEN <<>>
                            ELSE bindValues(hp, d.children[i]) \o each(i + 1)
             IN  each(1)

\* ---------------------------------------------------------------------- sql
\* QStringList::join over token sequences.
RECURSIVE join(_, _)
join(bits, sep) ==
    IF bits = <<>> THEN <<>>
    ELSE IF Len(bits) = 1 THEN bits[1]
    ELSE bits[1] \o <<sep>> \o join(Tail(bits), sep)

\* sql() with the UPPER() form of the case-insensitive operations used for every
\* dialect but SQLite.
comparisonSqlUpperDefault(d, databaseType) ==
    CASE d.operation = "Equals" -> <<d.key, "=", "?">>
      [] d.operation = "NotEquals" -> <<d.key, "!=", "?">>
      [] d.operation = "GreaterThan" -> <<d.key, ">", "?">>
      [] d.operation = "LessThan" -> <<d.key, "<", "?">>
      [] d.operation = "GreaterOrEquals" -> <<d.key, ">=", "?">>
      [] d.operation = "LessOrEquals" -> <<d.key, "<=", "?">>
      [] d.operation = "IsIn" ->
            LET bits == [i \in 1..Len(toList(d.data)) |-> <<"?">>]
            IN  IF d.negate THEN <<d.key, "NOT IN", "(">> \o join(bits, ",") \o <<")">>
                ELSE <<d.key, "IN", "(">> \o join(bits, ",") \o <<")">>
      [] d.operation = "IsNull" ->
            IF toBool(d.data) THEN <<d.key, "IS NULL">> ELSE <<d.key, "IS NOT NULL">>
      [] d.operation \in {"StartsWith", "EndsWith", "Contains"} ->
            LET op == IF databaseType = "MySqlServer"
                      THEN (IF d.negate THEN "NOT LIKE BINARY" ELSE "LIKE BINARY")
                      ELSE (IF d.negate THEN "NOT LIKE" ELSE "LIKE")
            IN  IF databaseType = "SQLite" THEN <<d.key, op, "?", "ESCAPE", "'\\'">>
                ELSE <<d.key, op, "?">>
      [] d.operation \in {"IStartsWith", "IEndsWith", "IContains", "IEquals"} ->
            LET op == IF d.negate THEN "NOT LIKE" ELSE "LIKE"
            IN  IF databaseType = "SQLite" THEN <<d.key, op, "?", "ESCAPE", "'\\'">>
                ELSE <<"UPPER(", d.key, "::text)", op, "UPPER(", "?", ")">>
      [] d.operation = "INotEquals" ->
            LET op == IF d.negate THEN "LIKE" ELSE "NOT LIKE"
            IN  IF databaseType = "SQLite" THEN <<d.key, op, "?", "ESCAPE", "'\\'">>
                ELSE <<"UPPER(", d.key, "::text)", op, "UPPER(", "?", ")">>
      [] OTHER -> <<>>

\* The switch cases of sql() for the comparison operations.
comparisonSql(d, databaseType) ==
    CASE d.operation = "Equals" -> <<d.key, "=", "?">>
      [] d.operation = "NotEquals" -> <<d.key, "!=", "?">>
      [] d.operation = "GreaterThan" -> <<d.key, ">", "?">>
      [] d.operation = "LessThan" -> <<d.key, "<", "?">>
      [] d.operation = "GreaterOrEquals" -> <<d.key, ">=", "?">>
      [] d.operation = "LessOrEquals" -> <<d.key, "<=", "?">>
      [] d.operation = "IsIn" ->
            LET bits == [i \in 1..Len(toList(d.data)) |-> <<"?">>]
            IN  IF d.negate THEN <<d.key, "NOT IN", "(">> \o join(bits, ",") \o <<")">>
                ELSE <<d.key, "IN", "(">> \o join(bits, ",") \o <<")">>
      [] d.operation = "IsNull" ->
            IF toBool(d.data) THEN <<d.key, "IS NULL">> ELSE <<d.key, "IS NOT NULL">>
      [] d.operation \in {"StartsWith", "EndsWith", "Contains"} ->
            LET op == IF databaseType = "MySqlServer"
                      THEN (IF d.negate THEN "NOT LIKE BINARY" ELSE "LIKE BINARY")
                      ELSE (IF d.negate THEN "NOT LIKE" ELSE "LIKE")
            IN  IF databaseType = "SQLite" THEN <<d.key, op, "?", "ESCAPE", "'\\'">>
                ELSE <<d.key, op, "?">>
      [] d.operation \in {"IStartsWith", "IEndsWith", "IContains", "IEquals"} ->
            LET op == IF d.negate THEN "NOT LIKE" ELSE "LIKE"
            IN  IF databaseType = "SQLite" THEN <<d.key, op, "?", "ESCAPE", "'\\'">>
                ELSE IF databaseType = "PostgreSQL"
                    THEN <<"UPPER(", d.key, "::text)", op, "UPPER(", "?", ")">>
                ELSE <<d.key, op, "?">>
      [] d.operation = "INotEquals" ->
            LET op == IF d.negate THEN "LIKE" ELSE "NOT LIKE"
            IN  IF databaseType = "SQLite" THEN <<d.key, op, "?", "ESCAPE", "'\\'">>
                ELSE IF databaseType = "PostgreSQL"
                    THEN <<"UPPER(", d.key, "::text)", op, "UPPER(", "?", ")">>
                ELSE <<d.key, op, "?">>
      [] OTHER -> <<>>

RECURSIVE sql(_, _, _)
sql(hp, this, databaseType) ==
    LET d == hp[this]
    IN  IF d.operation # "None" THEN comparisonSql(d, databaseType)
        ELSE IF d.combine = "NoCombine"
            THEN (IF d.negate THEN <<"1", "!=", "0">> ELSE <<>>)
        ELSE LET bits == [i \in 1..Len(d.children) |->
                            LET atom == sql(hp, d.children[i], databaseType)
                            IN  IF hp[d.children[i]].children = <<>> THEN atom
                                ELSE <<"(">> \o atom \o <<")">>]
                 combined == IF d.combine = "AndCombine" THEN join(bits, "AND")
                             ELSE IF d.combine = "OrCombine" THEN join(bits, "OR")
                             ELSE <<>>
             IN  IF d.negate THEN <<"NOT", "(">> \o combined \o <<")">> ELSE combined

\* ------------------------------------------------------------------- inputs
\* The value a caller passes for each operation: a string, for IsIn a list,
\* for IsNull a boolean, nothing for the None sentinel.
Values(operation) ==
    CASE operation = "None" -> {Invalid}
      [] operation = "IsIn" -> {VList(<<>>), VList(<< <<"1">>, <<"2">> >>)}
      [] operation = "IsNull" -> {VBool(TRUE), VBool(FALSE)}
      [] OTHER -> {VString(<<"a", "%", "_">>)}

Key(operation) == IF operation = "None" THEN "" ELSE "k"

\* Every leaf a caller can construct: each operation with each of its values.
LeafInputs ==
    UNION {{QDjangoWhere(Key(operation), operation, value) : value \in Values(operation)} :
           operation \in Operations}

\* The leaves that are mixed in one tree: the sentinel, a leaf that operator!
\* rewrites to its inverse operation and a leaf whose negate flag it flips.
MixedInputs ==
    {QDjangoWhere("", "None", Invalid),
     QDjangoWhere("k", "Equals", VString(<<"a">>)),
     QDjangoWhere("k", "IsIn", VList(<< <<"1">>, <<"2">> >>))}

\* ------------------------------------------------------------ specification
NoOp == [op |-> "init", a |-> 0, b |-> 0, r |-> 0]

Init == heap = <<>> /\ negOf = <<>> /\ last = NoOp

Handles == DOMAIN heap

\* Nodes made by the constructors, as opposed to operator results.
Constructed == {h \in Handles : heap[h].combine = "NoCombine" /\ negOf[h] = 0}

\* A call that returns one of its operands allocates nothing and changes no
\* node, so whatever can follow it can as well follow the call before it: a
\* behaviour is followed up to such a call and no further.  The states
\* reached are the same with and without this.
Fresh == last.op \in {"init", "leaf"} \/ last.r \notin {last.a, last.b}

\* QDjangoWhere() and QDjangoWhere(key, operation, value).  A caller constructs
\* its leaves before it combines them.
Leaf(d) ==
    /\ Fresh
    /\ Len(heap) < MaxNodes
    /\ Cardinality(Constructed) < MaxLeaves
    /\ Constructed = Handles
    /\ heap' = Append(heap, d)
    /\ negOf' = Append(negOf, 0)
    /\ last' = [op |-> "leaf", a |-> 0, b |-> 0, r |-> Len(heap) + 1]

\* The heap after an operator call, with the provenance of a node it allocated.
Publish(res, op, a, b, bound) ==
    /\ Fresh
    /\ Len(res.heap) <= bound
    /\ heap' = res.heap
    /\ negOf' = IF Len(res.heap) > Len(heap)
                THEN Append(negOf, IF op = "not" THEN a ELSE 0)
                ELSE negOf
    /\ last' = [op |-> op, a |-> a, b |-> b, r |-> res.d]

Not(a, bound) == Publish(operatorNot(heap, a), "not", a, 0, bound)

And(a, b, bound) == Publish(operatorAnd(heap, a, b), "and", a, b, bound)

Or(a, b, bound) == Publish(operatorOr(heap, a, b), "or", a, b, bound)

Next ==
    \/ \E d \in MixedInputs : Leaf(d)
    \/ \E a \in Handles : Not(a, MaxNodes)
    \/ \E a \in Handles, b \in Handles : And(a, b, MaxNodes)
    \/ \E a \in Handles, b \in Handles : Or(a, b, MaxNodes)

Spec == Init /\ [][Next]_vars

\* Trees grown from one leaf, for every leaf a caller can construct.
InitOneLeaf ==
    \E d \in LeafInputs :
        /\ heap = <<d>>
        /\ negOf = <<0>>
        /\ last = [op |-> "leaf", a |-> 0, b |-> 0, r |-> 1]

NextOneLeaf ==
    \/ \E a \in Handles : Not(a, MaxGrown)
    \/ \E a \in Handles, b \in Handles : And(a, b, MaxGrown)
    \/ \E a \in Handles, b \in Handles : Or(a, b, MaxGrown)

SpecOneLeaf == InitOneLeaf /\ [][NextOneLeaf]_vars

\* ================================================================== claims
Text(h, databaseType) == sql(heap, h, databaseType)

RECURSIVE Placeholders(_)
Placeholders(text) ==
    IF text = <<>> THEN 0
    ELSE (IF Head(text) = "?" THEN 1 ELSE 0) + Placeholders(Tail(text))

IsLeaf(h) == heap[h].combine = "NoCombine" /\ heap[h].children = <<>>

IsSentinel(h) == isAll(heap[h]) \/ isNone(heap[h])

\* C1: for every predicate built by leaf construction, operator!, operator&&
\* and operator||, and for every dialect, sql() emits as many `?` placeholders
\* as bindValues() binds values.
C1_PlaceholdersMatchValues ==
    \A h \in Handles : \A databaseType \in DatabaseTypes :
        Placeholders(Text(h, databaseType)) = Len(bindValues(heap, h))

\* A combination of two IsIn leaves of two values each: four placeholders.
C1_Witness ==
    \E h \in Handles :
        /\ heap[h].combine # "NoCombine"
        /\ Len(bindValues(heap, h)) = 4
        /\ Placeholders(Text(h, "PostgreSQL")) = 4

\* C4: for every leaf p of every operation, !!p has the operation of p, the
\* SQL text of p in every dialect and the bound values of p.
C4_DoubleNegation ==
    \A h \in Handles :
        (negOf[h] # 0 /\ negOf[negOf[h]] # 0 /\ IsLeaf(negOf[negOf[h]])) =>
            LET p == negOf[negOf[h]]
            IN  /\ heap[h].operation = heap[p].operation
                /\ \A databaseType \in DatabaseTypes :
                       Text(h, databaseType) = Text(p, databaseType)
                /\ bindValues(heap, h) = bindValues(heap, p)

\* !!p of a leaf whose negation is another operation.
C4_Witness ==
    \E h \in Handles :
        /\ negOf[h] # 0
        /\ negOf[negOf[h]] # 0
        /\ heap[negOf[negOf[h]]].operation = "GreaterThan"
        /\ heap[negOf[h]].operation = "LessOrEquals"

\* A comparison of two literals that no row satisfies.
IsFalseLiteral(text) ==
    /\ Len(text) = 3
    /\ text[2] \in {"=", "!="}
    /\ (text[2] = "=") => (text[1] # text[3])
    /\ (text[2] = "!=") => (text[1] = text[3])

\* C6: a None sentinel leaf renders to empty text when it is not negated (All)
\* and to a literal that is false on every row when it is negated.
C6_NoneConstraintRendersFalse ==
    \A h \in Handles : \A databaseType \in DatabaseTypes :
        (heap[h].operation = "None" /\ heap[h].combine = "NoCombine") =>
            IF heap[h].negate THEN IsFalseLiteral(Text(h, databaseType))
            ELSE Text(h, databaseType) = <<>>

LikeFamily ==
    {"StartsWith", "EndsWith", "Contains", "IStartsWith", "IEndsWith", "IContains",
     "IEquals", "INotEquals"}

\* sql() has one outcome that is no predicate text: the null QString it
\* returns when no case of its switch applies.
Failed(text) == text = <<>>

\* C8 as stated: rendering a LIKE-family or case-insensitive leaf for a
\* dialect that is not SQLite, MySQL or PostgreSQL fails instead of returning
\* the default LIKE text.
C8_UnknownDialectFails ==
    \A h \in Handles :
        (IsLeaf(h) /\ heap[h].operation \in LikeFamily) => Failed(Text(h, "UnknownDB"))

\* C8 as amended: rendering a LIKE-family or case-insensitive leaf for a
\* dialect that is not SQLite, MySQL or PostgreSQL does not fail; it returns
\* the default `key LIKE ?` text, `key NOT LIKE ?` for a negated leaf and for
\* INotEquals.
C8_UnknownDialectDefaultsToLike ==
    \A h \in Handles :
        (IsLeaf(h) /\ heap[h].operation \in LikeFamily) =>
            LET not == IF heap[h].operation = "INotEquals" THEN ~heap[h].negate
                       ELSE heap[h].negate
            IN  Text(h, "UnknownDB") =
                    <<heap[h].key, IF not THEN "NOT LIKE" ELSE "LIKE", "?">>

\* A negated case-insensitive leaf has been built.
C8_Witness ==
    \E h \in Handles :
        /\ heap[h].operation = "IContains"
        /\ heap[h].negate
        /\ negOf[h] # 0

\* ------------------------------------------------- claims about combination
\* A row, as far as a predicate on one column can tell rows apart: how the
\* column compares with the value, whether it is among the listed values,
\* whether it is null, whether it matches the pattern.
Rows == [cmp : {"lt", "eq", "gt"}, in : BOOLEAN, null : BOOLEAN, like : BOOLEAN]

\* Two-valued evaluation of the rendered tree on a row.
RECURSIVE Eval(_, _, _)
Eval(hp, h, row) ==
    LET d == hp[h]
    IN  CASE d.operation = "Equals" -> row.cmp = "eq"
          [] d.operation = "NotEquals" -> row.cmp # "eq"
          [] d.operation = "GreaterThan" -> row.cmp = "gt"
          [] d.operation = "LessThan" -> row.cmp = "lt"
          [] d.operation = "GreaterOrEquals" -> row.cmp \in {"gt", "eq"}
          [] d.operation = "LessOrEquals" -> row.cmp \in {"lt", "eq"}
          [] d.operation = "IsIn" -> row.in # d.negate
          [] d.operation = "IsNull" -> row.null = toBool(d.data)
          [] d.operation = "INotEquals" -> row.like = d.negate
          [] d.operation # "None" -> row.like # d.negate
          [] d.combine = "NoCombine" -> ~d.negate
          [] d.combine = "AndCombine" ->
                (\A i \in 1..Len(d.children) : Eval(hp, d.children[i], row)) # d.negate
          [] OTHER ->
                (\E i \in 1..Len(d.children) : Eval(hp, d.children[i], row)) # d.negate

\* C2: on every row, !a evaluates to the complement of a, a && b to the
\* conjunction and a || b to the disjunction of a and b.
C2_BooleanAlgebra ==
    \A row \in Rows :
        CASE last.op = "not" -> Eval(heap, last.r, row) = ~Eval(heap, last.a, row)
          [] last.op = "and" ->
                Eval(heap, last.r, row) = (Eval(heap, last.a, row) /\ Eval(heap, last.b, row))
          [] last.op = "or" ->
                Eval(heap, last.r, row) = (Eval(heap, last.a, row) \/ Eval(heap, last.b, row))
          [] OTHER -> TRUE

Same(g, h) ==
    /\ \A databaseType \in DatabaseTypes : Text(g, databaseType) = Text(h, databaseType)
    /\ bindValues(heap, g) = bindValues(heap, h)

\* C3: All && p is p, None && p is None, All || p is All, None || p is p, by
\* SQL text and bound values; of two sentinels the result is the operand that
\* the test `a is All or b is None` selects, else the other one.
C3_IdentityAbsorption ==
    LET a == last.a
        b == last.b
        r == last.r
        first == isAll(heap[a]) \/ isNone(heap[b])
    IN  /\ last.op = "and" =>
            /\ isAll(heap[a]) => Same(r, b)
            /\ isNone(heap[a]) => Same(r, a)
            /\ (IsSentinel(a) /\ IsSentinel(b)) => r = (IF first THEN b ELSE a)
        /\ last.op = "or" =>
            /\ isAll(heap[a]) => Same(r, a)
            /\ isNone(heap[a]) => Same(r, b)
            /\ (IsSentinel(a) /\ IsSentinel(b)) => r = (IF first THEN a ELSE b)

\* All && All of two distinct All predicates.
C3_Witness ==
    /\ last.op = "and"
    /\ last.a # last.b
    /\ isAll(heap[last.a])
    /\ isAll(heap[last.b])

Kind(op) == IF op = "and" THEN "AndCombine" ELSE "OrCombine"

Joiner(op) == IF op = "and" THEN "AND" ELSE "OR"

IsComparison(h) == IsLeaf(h) /\ ~IsSentinel(h)

\* A non-negated combination of comparisons only: what a left-nested chain of
\* one operator over comparisons builds.
IsChain(h, kind) ==
    /\ heap[h].combine = kind
    /\ ~heap[h].negate
    /\ \A i \in 1..Len(heap[h].children) : IsComparison(heap[h].children[i])

\* C5: a left-nested chain of && over comparisons a1..an is one And node with
\* the operands a1..an in that order, rendered as their texts joined by AND
\* with no parentheses; likewise for || and OR.
C5_Flattening ==
    (/\ last.op \in {"and", "or"}
     /\ IsComparison(last.b)
     /\ IsComparison(last.a) \/ IsChain(last.a, Kind(last.op))) =>
        LET operands == (IF IsComparison(last.a) THEN <<last.a>>
                         ELSE heap[last.a].children) \o <<last.b>>
        IN  /\ heap[last.r].combine = Kind(last.op)
            /\ ~heap[last.r].negate
            /\ heap[last.r].children = operands
            /\ \A databaseType \in DatabaseTypes :
                   Text(last.r, databaseType) =
                       join([i \in 1..Len(operands) |-> Text(operands[i], databaseType)],
                            Joiner(last.op))

\* (a1 && a2) && a1 with a1 and a2 distinct.
C5_Witness ==
    /\ last.op = "and"
    /\ Len(heap[last.r].children) = 3
    /\ heap[last.r].children[1] # heap[last.r].children[2]
    /\ heap[last.r].children[3] = last.b
    /\ IsChain(last.r, "AndCombine")

\* C7: no operator changes a predicate that exists when it is called: its
\* node, its SQL text and its bound values stay as they are, also when the
\* call appends to a's operands.
C7_OperandsUnchanged ==
    [][\A h \in DOMAIN heap :
           /\ h \in DOMAIN heap'
           /\ heap'[h] = heap[h]
           /\ \A databaseType \in DatabaseTypes :
                  sql(heap', h, databaseType) = sql(heap, h, databaseType)
           /\ bindValues(heap', h) = bindValues(heap, h)]_vars

\* a && b has appended b to the operands of the And node a.
C7_Witness ==
    /\ last.op = "and"
    /\ heap[last.a].combine = "AndCombine"
    /\ heap[last.r].children = Append(heap[last.a].children, last.b)
    /\ Len(heap[last.a].children) = 2

\* C9: a && b of two non-sentinels appends b to a's operands only when a is a
\* non-negated And node; otherwise it is a new non-negated And node with the
\* operands a and b.  Likewise for || and Or nodes.
C9_NegatedCombineNotExtended ==
    (/\ last.op \in {"and", "or"}
     /\ ~IsSentinel(last.a)
     /\ ~IsSentinel(last.b)) =>
        /\ heap[last.r].combine = Kind(last.op)
        /\ ~heap[last.r].negate
        /\ heap[last.r].operation = "None"
        /\ heap[last.r].children =
               IF heap[last.a].combine = Kind(last.op) /\ ~heap[last.a].negate
               THEN Append(heap[last.a].children, last.b)
               ELSE <<last.a, last.b>>

Joiners == {"AND", "OR"}

\* C10: no node has a sentinel among its operands, every combination has at
\* least two operands and each of them renders to text, so the SQL text has
\* no leading, trailing or doubled AND/OR and no empty operand in parentheses.
C10_NoEmptyOperand ==
    \A h \in Handles :
        /\ \A i \in 1..Len(heap[h].children) : ~IsSentinel(heap[h].children[i])
        /\ heap[h].combine # "NoCombine" =>
            /\ Len(heap[h].children) >= 2
            /\ \A databaseType \in DatabaseTypes :
                /\ \A i \in 1..Len(heap[h].children) :
                       Text(heap[h].children[i], databaseType) # <<>>
                /\ \A text \in {Text(h, databaseType)} :
                       /\ text[1] \notin Joiners
                       /\ text[Len(text)] \notin Joiners
                       /\ \A i \in 1..(Len(text) - 1) :
                              /\ ~(text[i] \in Joiners /\ text[i + 1] \in Joiners)
                              /\ ~(text[i] = "(" /\ text[i + 1] \in Joiners \cup {")"}
                                     /\ (i = 1 \/ text[i - 1] \notin {"IN", "NOT IN"}))
                              /\ ~(text[i] \in Joiners /\ text[i + 1] = ")")

\* c && All of a combination c and All is c itself.
C10_Witness ==
    /\ last.op = "and"
    /\ isAll(heap[last.b])
    /\ heap[last.a].combine # "NoCombine"
    /\ last.r = last.a

====
